---- MODULE Spec2Model ----
(***************************************************************************)
(* Query pipeline of the enterprise RAG system:                            *)
(*   QueryRequest validation      (pipeline/query_processor.py)            *)
(*   QueryProcessor.process       (pipeline/query_processor.py)            *)
(*   HybridSearchOrchestrator     (search/hybrid_search.py)                *)
(*   VectorDatabase.semantic_search (vector_store/vector_db.py)            *)
(*                                                                         *)
(* Numbers.  Scores and confidences are rationals; they are kept as        *)
(* integers in fixed units so that every product, mean and half the code   *)
(* computes is exact:                                                      *)
(*   raw and weighted scores, analysis confidence : thousandths (Milli)    *)
(*   Answer.confidence                            : 1/120000 (ConfOne)     *)
(* 120000 = 1000 * 60 * 2: 60 is divisible by every count 1..5 the mean    *)
(* divides by, and 2 is the final halving.                                 *)
(*                                                                         *)
(* Text.  A query is a sequence of words with the whitespace around them   *)
(* (lead, gaps, trail); a word is a name of the vocabulary whose           *)
(* properties (length, first character, lowercase form) are tabulated.     *)
(* An answer text is a sequence of words.                                  *)
(*                                                                         *)
(* Specifications.  Spec and FairSpec are the request pipeline.  RankSpec, *)
(* ScoreSpec, EntitySpec, GraphSpec and ChunkSpec apply _rank_results,     *)
(* _calculate_confidence, _extract_entities / _extract_keywords,           *)
(* _graph_search_sync and chunk_text to inputs of their own; PairSpec      *)
(* interleaves two process calls.  In these the variable fn holds the      *)
(* arguments, the progress and the value returned.                         *)
(***************************************************************************)
EXTENDS Integers, Sequences, FiniteSets, TLC

\* ------------------------------------------------------------------ bounds
MaxWords == 2
MaxPad == 1
MaxGap == 2
MaxHits == 6
MaxRelated == 1
MaxList == 3
MaxFused == 6
MaxTokens == 4
MaxText == 4
MaxChunkSize == 3
MaxOverlap == 4

\* ------------------------------------------------------- program constants
MinLength == 3
MaxLength == 1000
MinWords == 2
TopK == 10
MaxSources == 5
Milli == 1000
\* every count the mean of the top results divides by (1..5) divides it
MeanScale == 3 * 4 * 5

\* confidence 1.0 and 0.5 in the unit of Answer.confidence
ConfOne == Milli * MeanScale * 2

ConfHalf == ConfOne \div 2

NoValue == "None"

\* an optional field of a JSON reply: absent, or present with a value
Absent == <<>>

Some(v) == <<v>>

\* --------------------------------------------------------------- utilities
RECURSIVE SumSeq(_)
SumSeq(s) == IF s = <<>> THEN 0 ELSE Head(s) + SumSeq(Tail(s))

MinOf(a, b) == IF a <= b THEN a ELSE b

MaxOf(a, b) == IF a >= b THEN a ELSE b

Take(s, n) == SubSeq(s, 1, MinOf(n, Len(s)))

Range(s) == {s[i] : i \in 1..Len(s)}

RECURSIVE SelectSeqIdx(_, _, _)
\* the subsequence of s at the positions keep (in order), starting from i
SelectSeqIdx(s, keep, i) ==
    IF i > Len(s) THEN <<>>
    ELSE (IF i \in keep THEN <<s[i]>> ELSE <<>>) \o SelectSeqIdx(s, keep, i + 1)

\* --------------------------------------------------------------- vocabulary
\* "x997" stands for one lowercase word of 997 letters.
LongWord == "x997"

\* the words of the queries submitted
Vocab == {"Acme", "is", LongWord}

\* the double quote character
Quote == "\""

\* a word as the run of its characters: a double quote is one item, the
\* letters and digits between two of them another
Atoms(w) ==
    CASE w = "\"Acme" -> <<Quote, "Acme">>
      [] w = "Corp\"" -> <<"Corp", Quote>>
      [] OTHER -> <<w>>

\* word[0].isupper()
FirstIsUpper(w) == w \in {"Acme", "Q4", "What", "Find", "Corp", "Corp\""}

\* word.lower()
LowerWord(w) ==
    CASE w = "Acme" -> "acme"
      [] w = "Q4" -> "q4"
      [] w = "What" -> "what"
      [] w = "I" -> "i"
      [] w = "Insufficient" -> "insufficient"
      [] w = "Revenue" -> "revenue"
      [] w = "Error" -> "error"
      [] w = "Connection" -> "connection"
      [] w = "Unclear" -> "unclear"
      [] w = "Find" -> "find"
      [] w = "Corp" -> "corp"
      [] w = "Corp\"" -> "corp\""
      [] w = "\"Acme" -> "\"acme"
      [] OTHER -> w

\* len(word); case does not change it
WordLen(w) ==
    LET l == LowerWord(w)
    IN  CASE l = "acme" -> 4
          [] l = "q4" -> 2
          [] l = "is" -> 2
          [] l = "what" -> 4
          [] l = LongWord -> 997
          [] l = "find" -> 4
          [] l = "corp" -> 4
          [] l = "corp\"" -> 5
          [] l = "\"acme" -> 5
          [] l = "revenue" -> 7
          [] OTHER -> 1

\* ------------------------------------------------------------ query strings
\* A string: lead blanks, words separated by runs of blanks (gaps), trail
\* blanks.  Len(gaps) = Len(words) - 1 when there are words.
Str(lead, words, gaps, trail) ==
    [lead |-> lead, words |-> words, gaps |-> gaps, trail |-> trail]

\* a string whose words are separated by single blanks
Plain(words) ==
    Str(0, words, [i \in 1..MaxOf(Len(words) - 1, 0) |-> 1], 0)

\* len(v)
StrLen(v) ==
    v.lead + SumSeq([i \in 1..Len(v.words) |-> WordLen(v.words[i])])
           + SumSeq(v.gaps) + v.trail

\* v.split()
Split(v) == v.words

\* re.sub(r'\s+', ' ', v.strip())
Normalize(v) ==
    Str(0, v.words, [i \in 1..Len(v.gaps) |-> 1], 0)

WordSeqs == UNION {[1..n -> Vocab] : n \in 0..MaxWords}

RawQueries ==
    {Str(lead, ws, gaps, trail) :
        lead \in 0..MaxPad,
        ws \in WordSeqs,
        gaps \in UNION {[1..n -> 1..MaxGap] : n \in 0..MaxWords},
        trail \in 0..MaxPad}

WellFormedRaw(v) ==
    /\ Len(v.gaps) = MaxOf(Len(v.words) - 1, 0)
    /\ (v.words = <<>> => v.trail = 0)

\* Field(min_length=3, max_length=1000): the constraint of the field, which
\* pydantic checks on the input value before the 'after' validator runs.
LengthOk(v) ==
    /\ StrLen(v) >= MinLength
    /\ StrLen(v) <= MaxLength

\* validate_query without its word-count check
ValidateQuery_NoWordCheck(v) ==
    [ok |-> TRUE, value |-> Normalize(v)]

\* QueryRequest.validate_query: the value stored, or the ValueError
ValidateQuery(v) ==
    LET n == Normalize(v)
    IN  IF Len(Split(n)) < MinWords
        THEN [ok |-> FALSE, value |-> NoValue]
        ELSE [ok |-> TRUE, value |-> n]

\* QueryRequest(query=v): field constraint first, then the validator
NewQueryRequest(v) ==
    IF ~LengthOk(v)
    THEN [ok |-> FALSE, value |-> NoValue]
    ELSE ValidateQuery(v)

\* ----------------------------------------------------- entity / keyword extraction
Interrogatives == {"What", "Who", "Where", "When", "Why", "How"}

StopWords ==
    {"the", "a", "an", "and", "or", "but", "in", "on", "at", "to", "for",
     "of", "with", "by", "from", "is", "are", "was", "were", "be", "been",
     "what", "who", "where", "when", "why", "how", "show", "find", "get"}

RECURSIVE Blanks(_)
\* a run of n blanks
Blanks(n) == IF n = 0 THEN "" ELSE " " \o Blanks(n - 1)

RECURSIVE Concat(_)
Concat(s) == IF s = <<>> THEN "" ELSE Head(s) \o Concat(Tail(s))

\* the characters of a query, in order: the items of its words and the runs
\* of blanks around them
Flatten(query) ==
    LET n == Len(query.words)
        upto[i \in 0..n] ==
            IF i = 0 THEN <<Blanks(query.lead)>>
            ELSE upto[i - 1] \o Atoms(query.words[i])
                    \o <<IF i < n THEN Blanks(query.gaps[i])
                                  ELSE Blanks(query.trail)>>
    IN  upto[n]

RECURSIVE FindQuoted(_, _)
\* re.findall(r'"([^"]+)"', query) from the i-th item on: the text between a
\* double quote and the next one, when it is not empty; the search goes on
\* behind the closing quote
FindQuoted(atoms, i) ==
    LET opens == {k \in i..Len(atoms) : atoms[k] = Quote}
    IN  IF opens = {} THEN {}
        ELSE LET a == CHOOSE k \in opens : \A m \in opens : k <= m
                 closes == {k \in (a + 1)..Len(atoms) : atoms[k] = Quote}
             IN  IF closes = {} THEN {}
                 ELSE LET b == CHOOSE k \in closes : \A m \in closes : k <= m
                          phrase == Concat(SubSeq(atoms, a + 1, b - 1))
                      IN  IF phrase = "" THEN FindQuoted(atoms, b)
                          ELSE {phrase} \cup FindQuoted(atoms, b + 1)

\* _extract_entities: the quoted phrases and the capitalized words;
\* list(set(...)) is a set whose iteration order is not fixed
ExtractEntities(query) ==
    FindQuoted(Flatten(query), 1)
    \cup {w \in Range(Split(query)) :
            FirstIsUpper(w) /\ WordLen(w) > 1 /\ w \notin Interrogatives}

\* re.findall(r'\b\w+\b', query.lower()): the runs of letters and digits
Tokenize(query) ==
    LET n == Len(query.words)
        upto[i \in 0..n] ==
            IF i = 0 THEN <<>>
            ELSE upto[i - 1]
                    \o SelectSeq([k \in 1..Len(Atoms(query.words[i])) |->
                                     LowerWord(Atoms(query.words[i])[k])],
                                 LAMBDA a : a # Quote)
    IN  upto[n]

\* _extract_keywords
ExtractKeywords(query) ==
    LET words == Tokenize(query)
        keep == {i \in 1..Len(words) :
                    words[i] \notin StopWords /\ WordLen(words[i]) > 2}
    IN  SelectSeqIdx(words, keep, 1)

\* every order in which a set can be iterated
Orders(S) == {s \in [1..Cardinality(S) -> S] : Range(s) = S}

\* ------------------------------------------------------------- query triage
QueryType ==
    {"FACTUAL_LOOKUP", "SUMMARIZATION", "SEMANTIC_LINKAGE", "REASONING",
     "EXPLORATORY"}

\* what the classification call can come back with
ReplyLabels ==
    {Absent, Some("FACTUAL_LOOKUP"), Some("SEMANTIC_LINKAGE"), Some("BOGUS")}

ReplyRewrites ==
    {Absent, Some(Plain(<<"Q4", "is">>)), Some(Plain(<<"Acme", "Q4">>))}

ReplyFlags == {Absent, Some(TRUE), Some(FALSE)}

ReplyConfidences == {Absent, Some(0), Some(1500)}

JsonReply(qt, rw, g, v, k, em, c) ==
    [kind |-> "json", query_type |-> qt, rewritten_query |-> rw,
     requires_graph |-> g, requires_vector |-> v, requires_keyword |-> k,
     entities_mentioned |-> em, confidence |-> c]

ClassifyResponses ==
    {[kind |-> "raise"], [kind |-> "text"]}
    \cup {JsonReply(qt, rw, g, v, k, Absent, c) :
            qt \in ReplyLabels, rw \in ReplyRewrites, g \in ReplyFlags,
            v \in ReplyFlags, k \in ReplyFlags, c \in ReplyConfidences}
    \cup {JsonReply(Absent, Absent, Absent, Absent, Absent, Some(<<"Acme">>), Absent)}

\* result.get(key, default)
Get(field, default) == IF field = Absent THEN default ELSE field[1]

NoAnalysis == [absent |-> TRUE]

\* the except branch of _triage_query
FallbackAnalysis(query) ==
    [original_query |-> query,
     rewritten_query |-> query,
     query_type |-> "FACTUAL_LOOKUP",
     requires_graph |-> FALSE,
     requires_vector |-> TRUE,
     requires_keyword |-> FALSE,
     entities_mentioned |-> <<>>,
     confidence |-> 500]

\* the try branch of _triage_query on a parsed reply
ParsedAnalysis(query, r) ==
    [original_query |-> query,
     rewritten_query |-> Get(r.rewritten_query, query),
     query_type |-> Get(r.query_type, "FACTUAL_LOOKUP"),
     requires_graph |-> Get(r.requires_graph, FALSE),
     requires_vector |-> Get(r.requires_vector, TRUE),
     requires_keyword |-> Get(r.requires_keyword, FALSE),
     entities_mentioned |-> Get(r.entities_mentioned, <<>>),
     confidence |-> Get(r.confidence, 800)]

\* QueryType[label] raises KeyError
UnknownLabel(resp) == Get(resp.query_type, "FACTUAL_LOOKUP") \notin QueryType

\* QueryAnalysis(...) raises: confidence violates Field(ge=0.0, le=1.0)
InvalidAnalysis(resp) ==
    Get(resp.confidence, 800) < 0 \/ Get(resp.confidence, 800) > Milli

\* how a response of the classification service is to be classed
ResponseKind(resp) ==
    IF resp.kind = "raise" THEN "service_error"
    ELSE IF resp.kind = "text" THEN "bad_json"
    ELSE IF resp.query_type # Absent /\ resp.query_type[1] \notin QueryType
    THEN "unknown_label"
    ELSE IF resp.confidence # Absent
            /\ (resp.confidence[1] < 0 \/ resp.confidence[1] > Milli)
    THEN "invalid_field"
    ELSE "ok"

\* _triage_query in which an unknown label is replaced by the default type
\* instead of raising KeyError
TriageQuery_LabelDefault(query, resp) ==
    IF resp.kind \in {"raise", "text"} THEN FallbackAnalysis(query)
    ELSE IF UnknownLabel(resp)
    THEN ParsedAnalysis(query, [resp EXCEPT !.query_type = Some("FACTUAL_LOOKUP")])
    ELSE IF InvalidAnalysis(resp) THEN FallbackAnalysis(query)
    ELSE ParsedAnalysis(query, resp)

\* _triage_query: the analysis returned for a response of the service
\* (raise: the call raises; text: json.loads raises)
TriageQuery(query, resp) ==
    IF resp.kind \in {"raise", "text"} THEN FallbackAnalysis(query)
    ELSE IF UnknownLabel(resp) \/ InvalidAnalysis(resp)
    THEN FallbackAnalysis(query)
    ELSE ParsedAnalysis(query, resp)

TriageFailures == {"service_error", "bad_json", "unknown_label", "invalid_field"}

\* ------------------------------------------------------------ search results
\* content of a result: a format (how the strategy renders it), the name it
\* renders (label, n), whether the name is in upper case, and what follows
\* the first 100 characters (tail)
Content(fmt, label, n) ==
    [fmt |-> fmt, label |-> label, n |-> n, upper |-> FALSE, tail |-> 0]

Metadata(source, relationship, parent) ==
    [source |-> source, relationship |-> relationship, parent_entity |-> parent]

SearchResult(content, source, score, metadata) ==
    [content |-> content, source |-> source, score |-> score,
     metadata |-> metadata]

\* result.content[:100].lower()
ContentKey(content) == [content EXCEPT !.tail = 0, !.upper = FALSE]

\* source_weights.get(source, 0.7), in tenths
SourceWeight(source) ==
    CASE source = "vector" -> 10
      [] source = "graph" -> 9
      [] source = "keyword" -> 8
      [] OTHER -> 7

\* result.score *= weight
Weighted(r) == [r EXCEPT !.score = (r.score * SourceWeight(r.source)) \div 10]

\* a sort that puts x before the elements of equal score
InsertDesc_Strict(sorted, x) ==
    LET k == Cardinality({i \in 1..Len(sorted) : sorted[i].score > x.score})
    IN  SubSeq(sorted, 1, k) \o <<x>> \o SubSeq(sorted, k + 1, Len(sorted))

\* one step of the stable descending sort: x goes after every element whose
\* score is at least its own
InsertDesc(sorted, x) ==
    LET k == Cardinality({i \in 1..Len(sorted) : sorted[i].score >= x.score})
    IN  SubSeq(sorted, 1, k) \o <<x>> \o SubSeq(sorted, k + 1, Len(sorted))

\* no sort: the results stay in the order of the merge
SortDesc_Unsorted(s) == s

RECURSIVE SortDesc(_)
\* results.sort(key=lambda x: x.score, reverse=True)
SortDesc(s) ==
    IF s = <<>> THEN <<>>
    ELSE InsertDesc(SortDesc(SubSeq(s, 1, Len(s) - 1)), s[Len(s)])

RECURSIVE Dedup_KeepLast(_, _)
\* a deduplication in which the last result of each content key is kept
Dedup_KeepLast(s, seen) ==
    IF s = <<>> THEN <<>>
    ELSE IF \E i \in 2..Len(s) :
                ContentKey(s[i].content) = ContentKey(Head(s).content)
         THEN Dedup_KeepLast(Tail(s), seen)
         ELSE <<Head(s)>> \o Dedup_KeepLast(Tail(s), seen)

RECURSIVE Dedup(_, _)
\* the deduplication loop: the first result of each content key is kept
Dedup(s, seen) ==
    IF s = <<>> THEN <<>>
    ELSE LET key == ContentKey(Head(s).content)
         IN  IF key \in seen
             THEN Dedup(Tail(s), seen)
             ELSE <<Head(s)>> \o Dedup(Tail(s), seen \cup {key})

\* _rank_results
RankResults(results) ==
    Dedup(SortDesc([i \in 1..Len(results) |-> Weighted(results[i])]), {})

\* a search that cuts the sorted list to top_k before it drops duplicates
RankAndTruncate_DedupLast(results, top_k) ==
    Dedup(Take(SortDesc([i \in 1..Len(results) |-> Weighted(results[i])]),
               top_k), {})

\* the end of search: ranked_results = _rank_results(...); ranked_results[:top_k]
RankAndTruncate(results, top_k) == Take(RankResults(results), top_k)

\* how many hits a store returns: none, one, or as many as the bound allows
HitCounts == {0, 1, MaxHits}

\* --------------------------------------------------------- graph strategy
NodeConfidences == {Absent, Some(-500)}

\* kg.find_entity(entity): raises, finds nothing, or finds a node
FindOutcomes ==
    {[kind |-> "raise", confidence |-> Absent],
     [kind |-> "absent", confidence |-> Absent]}
    \cup {[kind |-> "found", confidence |-> c] : c \in NodeConfidences}

\* kg.find_related_entities(entity, max_depth=2): raises, or the related nodes
RelatedOutcomes ==
    {[kind |-> "raise", nodes |-> <<>>]}
    \cup {[kind |-> "list", nodes |-> [j \in 1..n |-> Absent]] : n \in 0..MaxRelated}

EntityResult(entity, node) ==
    SearchResult(Content("Entity", entity, 0), "graph",
                 Get(node.confidence, 800),
                 Metadata("knowledge_graph", NoValue, NoValue))

RelatedResult(entity, j, confidence) ==
    SearchResult(Content("Related Entity", entity, j), "graph",
                 (Get(confidence, 700) * 9) \div 10,
                 Metadata("knowledge_graph", "related_to", entity))

RECURSIVE GraphLoop_AlwaysRelated(_, _, _, _, _, _)
\* a loop that looks up the related entities whatever the query type
GraphLoop_AlwaysRelated(entities, i, query_type, find, related, acc) ==
    IF i > Len(entities) THEN [ok |-> TRUE, results |-> acc]
    ELSE LET e == entities[i]
             info == find[e]
         IN  IF info.kind = "raise" THEN [ok |-> FALSE, results |-> <<>>]
             ELSE IF info.kind = "absent"
             THEN GraphLoop_AlwaysRelated(entities, i + 1, query_type, find,
                                          related, acc)
             ELSE LET rel == related[e]
                  IN  IF rel.kind = "raise"
                      THEN [ok |-> FALSE, results |-> <<>>]
                      ELSE GraphLoop_AlwaysRelated(entities, i + 1, query_type,
                               find, related,
                               Append(acc, EntityResult(e, info))
                                  \o [j \in 1..Len(rel.nodes) |->
                                         RelatedResult(e, j, rel.nodes[j])])

RECURSIVE GraphLoop(_, _, _, _, _, _)
\* the loop of _graph_search_sync from the i-th entity on; an exception of a
\* store call leaves the function
GraphLoop(entities, i, query_type, find, related, acc) ==
    IF i > Len(entities) THEN [ok |-> TRUE, results |-> acc]
    ELSE LET e == entities[i]
             info == find[e]
         IN  IF info.kind = "raise" THEN [ok |-> FALSE, results |-> <<>>]
             ELSE IF info.kind = "absent"
             THEN GraphLoop(entities, i + 1, query_type, find, related, acc)
             ELSE LET acc1 == Append(acc, EntityResult(e, info))
                  IN  IF query_type = "SEMANTIC_LINKAGE"
                      THEN LET rel == related[e]
                           IN  IF rel.kind = "raise"
                               THEN [ok |-> FALSE, results |-> <<>>]
                               ELSE GraphLoop(entities, i + 1, query_type, find, related,
                                        acc1 \o [j \in 1..Len(rel.nodes) |->
                                                    RelatedResult(e, j, rel.nodes[j])])
                      ELSE GraphLoop(entities, i + 1, query_type, find, related, acc1)

\* _graph_search_sync
GraphSearchSync(entities, query_type, find, related) ==
    GraphLoop(entities, 1, query_type, find, related, <<>>)

\* ------------------------------------------------------- keyword strategy
\* kg.keyword_search(keywords, limit=10): raises, or n matching entities
KeywordOutcomes ==
    {[kind |-> "raise", n |-> 0]} \cup {[kind |-> "list", n |-> n] : n \in HitCounts}

\* _keyword_search_sync
KeywordSearchSync(out) ==
    IF out.kind = "raise" THEN [ok |-> FALSE, results |-> <<>>]
    ELSE [ok |-> TRUE,
          results |-> [i \in 1..out.n |->
              SearchResult(Content("Keyword", "entity", i), "keyword", 850,
                           Metadata("keyword_search", NoValue, NoValue))]]

\* -------------------------------------------------------- vector strategy
VectorScores == {820, 1500}

\* the embedding call raises, the store search raises, or the store returns
\* n hits, the i-th with a score 10 below the one before it
VectorOutcomes ==
    {[kind |-> "embedding_raise", n |-> 0, score |-> 0],
     [kind |-> "search_raise", n |-> 0, score |-> 0]}
    \cup {[kind |-> "hits", n |-> n, score |-> sc] :
            n \in HitCounts, sc \in VectorScores}

\* VectorDatabase.semantic_search: every exception ends in the empty list
SemanticSearch(out) ==
    IF out.kind \in {"embedding_raise", "search_raise"} THEN <<>>
    ELSE [i \in 1..out.n |-> [id |-> i, score |-> out.score - 10 * (i - 1)]]

\* _vector_search_sync
VectorSearchSync(out) ==
    LET hits == SemanticSearch(out)
    IN  [i \in 1..Len(hits) |->
            SearchResult(Content("Text", "chunk", hits[i].id), "vector",
                         hits[i].score,
                         Metadata("vector_search", NoValue, NoValue))]

\* ------------------------------------------------------------ answer texts
\* answer.lower()
LowerText(text) == [i \in 1..Len(text) |-> LowerWord(text[i])]

\* phrase in text
Contains(text, phrase) ==
    \E i \in 1..(Len(text) - Len(phrase) + 1) :
        SubSeq(text, i, i + Len(phrase) - 1) = phrase

InsufficientIndicators ==
    {<<"don't", "have", "enough">>, <<"insufficient">>,
     <<"cannot", "answer">>, <<"unclear">>}

Sentinel == <<"I", "don't", "have", "enough", "information">>

\* what the generation service can return for synthesis
GeneratedTexts ==
    {<<"Revenue", "grew">>,
     <<"I", "don't", "have", "enough", "information", "to", "answer", "this">>,
     <<"Insufficient", "data">>}

\* str(e) of a failed generation call
ErrorMessages == {<<"Connection", "error.">>, <<"insufficient", "quota">>}

\* the except branch of _generate_answer
ErrorText(msg) == <<"Error", "generating", "answer:">> \o msg

NoResultsText == <<"I", "couldn't", "find", "relevant", "information">>

\* ------------------------------------------------------ the context block
\* f"{score:.2f}": the hundredths nearest to the score; half way between
\* two of them the binary value of the float decides, so both are kept
TwoDecimals(score) ==
    {h \in (score \div 10)..(score \div 10 + 1) :
        h * 10 - score <= 5 /\ score - h * 10 <= 5}

\* a context block numbered as enumerate numbers without a start value
ContextBlock_ZeroBased(context_results) ==
    LET top == Take(context_results, MaxSources)
    IN  [i \in 1..Len(top) |->
            [idx |-> i - 1, source |-> top[i].source,
             confidence |-> TwoDecimals(top[i].score),
             content |-> top[i].content]]

\* the context block of _generate_answer: one "[Source idx - source,
\* confidence: score]" entry with its content per result of the top five
ContextBlock(context_results) ==
    LET top == Take(context_results, MaxSources)
    IN  [i \in 1..Len(top) |->
            [idx |-> i, source |-> top[i].source,
             confidence |-> TwoDecimals(top[i].score),
             content |-> top[i].content]]

\* ------------------------------------------------------------ the Answer
NoAnswer == [absent |-> TRUE]

\* a marker test on the text as it is, without answer.lower()
HasInsufficient_CaseSensitive(answer) ==
    \E ind \in InsufficientIndicators : Contains(answer, ind)

\* has_insufficient of _calculate_confidence
HasInsufficient(answer) ==
    \E ind \in InsufficientIndicators : Contains(LowerText(answer), ind)

\* a confidence that takes no account of the markers in the answer
CalculateConfidence_NoMarkerCap(answer, results, analysis) ==
    IF results = <<>> THEN 0
    ELSE LET top == Take(results, MaxSources)
             sum == SumSeq([i \in 1..Len(top) |-> top[i].score])
             avg == sum * (MeanScale \div MinOf(Len(results), MaxSources))
         IN  MinOf(avg + analysis.confidence * MeanScale, ConfOne)

\* _calculate_confidence, in units of 1/ConfOne
CalculateConfidence(answer, results, analysis) ==
    IF results = <<>> THEN 0
    ELSE LET top == Take(results, MaxSources)
             sum == SumSeq([i \in 1..Len(top) |-> top[i].score])
             \* avg_score in units of 1/(Milli * MeanScale)
             avg == sum * (MeanScale \div MinOf(Len(results), MaxSources))
         IN  IF HasInsufficient(answer)
             THEN MinOf((3 * ConfOne) \div 10, 2 * avg)
             ELSE MinOf(avg + analysis.confidence * MeanScale, ConfOne)

\* a warning chosen without the test of the confidence
WarningFor_SentinelOnly(confidence, answer_text) ==
    IF Contains(answer_text, Sentinel)
    THEN "Insufficient context to fully answer query"
    ELSE NoValue

\* a warning chosen with the test of the sentinel phrase first
WarningFor_SentinelFirst(confidence, answer_text) ==
    IF Contains(answer_text, Sentinel)
    THEN "Insufficient context to fully answer query"
    ELSE IF confidence < ConfHalf
    THEN "Low confidence answer - information may be incomplete"
    ELSE NoValue

\* the warning chosen by _post_process_answer
WarningFor(confidence, answer_text) ==
    IF confidence < ConfHalf
    THEN "Low confidence answer - information may be incomplete"
    ELSE IF Contains(answer_text, Sentinel)
    THEN "Insufficient context to fully answer query"
    ELSE NoValue

\* settings.eval_mode
EvalMode == "development"

\* a post-processing that lists the results after the first five as sources
PostProcessAnswer_SourcesAfterFive(query, answer_text, search_results, analysis) ==
    LET rest == SubSeq(search_results, MaxSources + 1, Len(search_results))
        sources == [i \in 1..Len(rest) |->
                       [id |-> i, source_type |-> rest[i].source,
                        score |-> rest[i].score, metadata |-> rest[i].metadata]]
        confidence == CalculateConfidence(answer_text, search_results, analysis)
    IN  IF confidence < 0 \/ confidence > ConfOne
        THEN [ok |-> FALSE, answer |-> NoAnswer]
        ELSE [ok |-> TRUE,
              answer |-> [query |-> query,
                          answer |-> answer_text,
                          sources |-> sources,
                          confidence |-> confidence,
                          query_type |-> analysis.query_type,
                          retrieved_contexts |->
                              [i \in 1..Len(search_results) |-> search_results[i].content],
                          evaluation_metrics |-> (EvalMode = "development"),
                          warning |-> WarningFor(confidence, answer_text)]]

\* _post_process_answer followed by step 8 of process; Answer(...) validates
\* confidence against Field(ge=0.0, le=1.0) and raises when it is outside
PostProcessAnswer(query, answer_text, search_results, analysis) ==
    LET top == Take(search_results, MaxSources)
        sources == [i \in 1..Len(top) |->
                       [id |-> i, source_type |-> top[i].source,
                        score |-> top[i].score, metadata |-> top[i].metadata]]
        confidence == CalculateConfidence(answer_text, search_results, analysis)
    IN  IF confidence < 0 \/ confidence > ConfOne
        THEN [ok |-> FALSE, answer |-> NoAnswer]
        ELSE [ok |-> TRUE,
              answer |-> [query |-> query,
                          answer |-> answer_text,
                          sources |-> sources,
                          confidence |-> confidence,
                          query_type |-> analysis.query_type,
                          retrieved_contexts |->
                              [i \in 1..Len(search_results) |-> search_results[i].content],
                          evaluation_metrics |-> (EvalMode = "development"),
                          warning |-> WarningFor(confidence, answer_text)]]

\* _handle_no_results that scores the empty list like any other
HandleNoResults_NoWarning(query, analysis) ==
    [query |-> query,
     answer |-> NoResultsText,
     sources |-> <<>>,
     confidence |-> 0,
     query_type |-> analysis.query_type,
     retrieved_contexts |-> <<>>,
     evaluation_metrics |-> FALSE,
     warning |-> WarningFor(0, NoResultsText)]

\* _handle_no_results
HandleNoResults(query, analysis) ==
    [query |-> query,
     answer |-> NoResultsText,
     sources |-> <<>>,
     confidence |-> 0,
     query_type |-> analysis.query_type,
     retrieved_contexts |-> <<>>,
     evaluation_metrics |-> FALSE,
     warning |-> "No relevant context found"]

\* a check that never takes the no-results branch
NoResults_Never(search_results) == FALSE

\* 'if not search_results' of process
NoResults(search_results) == search_results = <<>>

\* ------------------------------------------------------------------- state
VARIABLES
    pc,           \* where the request is: new, constructed, rejected,
                  \* triage_wait, search_graph, graph_wait, search_keyword,
                  \* keyword_wait, search_vector, vector_wait, rank,
                  \* generate_wait, done, raised
    raw,          \* the query text handed to QueryRequest(...)
    request,      \* the QueryRequest, once constructed
    analysis,     \* the QueryAnalysis of _triage_query
    triage_kind,  \* what the classification service answered (ResponseKind)
    calls,        \* status of each external call of the request
    results,      \* the results list of search, then search_results of process
    answer,       \* the Answer process returned
    error,        \* the exception that left process or QueryRequest
    context,      \* the context block of the prompt of the synthesis call
    fn            \* a function of the pipeline applied on its own: its
                  \* arguments and what it returned (unused by the pipeline)

vars ==
    <<pc, raw, request, analysis, triage_kind, calls, results, answer, error,
      context, fn>>

\* the state of process and of the calls it makes
pipeline ==
    <<pc, raw, request, analysis, triage_kind, calls, results, answer, error,
      context>>

CallNames == {"classify", "graph", "keyword", "vector", "synth"}

Strategies == {"graph", "keyword", "vector"}

NoRequest == [absent |-> TRUE]

NoRaw == [absent |-> TRUE]

\* no function is applied on its own
NoFn == [name |-> "none"]

Issued == {c \in CallNames : calls[c] # "none"}

InFlight == {c \in CallNames : calls[c] = "inflight"}

Init ==
    /\ pc = "new"
    /\ raw \in {v \in RawQueries : WellFormedRaw(v)}
    /\ request = NoRequest
    /\ analysis = NoAnalysis
    /\ triage_kind = "none"
    /\ calls = [c \in CallNames |-> "none"]
    /\ results = <<>>
    /\ answer = NoAnswer
    /\ error = NoValue
    /\ context = <<>>
    /\ fn = NoFn

\* QueryRequest(query=raw), as the API layer does for the body of POST /query
Construct ==
    /\ pc = "new"
    /\ LET r == NewQueryRequest(raw)
       IN  IF r.ok
           THEN /\ pc' = "constructed"
                /\ request' = [query |-> r.value]
                /\ error' = error
           ELSE /\ pc' = "rejected"
                /\ request' = request
                /\ error' = "ValidationError"
    /\ UNCHANGED <<fn, context, raw, analysis, triage_kind, calls, results, answer>>

\* process is entered and _triage_query issues the classification call; the
\* raw text is out of scope from here on
ProcessEnter ==
    /\ pc = "constructed"
    /\ pc' = "triage_wait"
    /\ raw' = NoRaw
    /\ calls' = [calls EXCEPT !["classify"] = "inflight"]
    /\ UNCHANGED <<fn, context, request, analysis, triage_kind, results, answer, error>>

\* the classification call comes back (or raises) and _triage_query returns
TriageReturn ==
    /\ pc = "triage_wait"
    /\ \E resp \in ClassifyResponses :
         /\ analysis' = TriageQuery(request.query, resp)
         /\ triage_kind' = ResponseKind(resp)
         /\ calls' = [calls EXCEPT !["classify"] =
                         IF resp.kind = "raise" THEN "raised" ELSE "returned"]
    /\ pc' = "search_graph"
    /\ UNCHANGED <<fn, context, raw, request, results, answer, error>>

\* search is called with the rewritten query
SearchQuery == analysis.rewritten_query

\* 1. graph search, if enabled and entities were found: the call is issued
\* and awaited
GraphStep ==
    /\ pc = "search_graph"
    /\ IF analysis.requires_graph /\ ExtractEntities(SearchQuery) # {}
       THEN /\ pc' = "graph_wait"
            /\ calls' = [calls EXCEPT !["graph"] = "inflight"]
       ELSE /\ pc' = "search_keyword"
            /\ calls' = calls
    /\ UNCHANGED <<fn, context, raw, request, analysis, triage_kind, results, answer, error>>

\* the thread running _graph_search_sync finishes
GraphReturn ==
    /\ pc = "graph_wait"
    /\ \E entities \in Orders(ExtractEntities(SearchQuery)) :
       \E find \in [ExtractEntities(SearchQuery) -> FindOutcomes] :
       \E related \in [ExtractEntities(SearchQuery) -> RelatedOutcomes] :
         LET out == GraphSearchSync(entities, analysis.query_type, find, related)
         IN  IF out.ok
             THEN /\ results' = results \o out.results
                  /\ calls' = [calls EXCEPT !["graph"] = "returned"]
                  /\ pc' = "search_keyword"
                  /\ error' = error
             ELSE /\ results' = results
                  /\ calls' = [calls EXCEPT !["graph"] = "raised"]
                  /\ pc' = "raised"
                  /\ error' = "GraphStoreError"
    /\ UNCHANGED <<fn, context, raw, request, analysis, triage_kind, answer>>

\* a keyword search issued whenever it is enabled, keywords or not
KeywordStep_IgnoresKeywords ==
    /\ pc = "search_keyword"
    /\ IF analysis.requires_keyword
       THEN /\ pc' = "keyword_wait"
            /\ calls' = [calls EXCEPT !["keyword"] = "inflight"]
       ELSE /\ pc' = "search_vector"
            /\ calls' = calls
    /\ UNCHANGED <<fn, context, raw, request, analysis, triage_kind, results, answer, error>>

\* 2. keyword search, if enabled and keywords were found
KeywordStep ==
    /\ pc = "search_keyword"
    /\ IF analysis.requires_keyword /\ ExtractKeywords(SearchQuery) # <<>>
       THEN /\ pc' = "keyword_wait"
            /\ calls' = [calls EXCEPT !["keyword"] = "inflight"]
       ELSE /\ pc' = "search_vector"
            /\ calls' = calls
    /\ UNCHANGED <<fn, context, raw, request, analysis, triage_kind, results, answer, error>>

\* the thread running _keyword_search_sync finishes
KeywordReturn ==
    /\ pc = "keyword_wait"
    /\ \E o \in KeywordOutcomes :
         LET out == KeywordSearchSync(o)
         IN  IF out.ok
             THEN /\ results' = results \o out.results
                  /\ calls' = [calls EXCEPT !["keyword"] = "returned"]
                  /\ pc' = "search_vector"
                  /\ error' = error
             ELSE /\ results' = results
                  /\ calls' = [calls EXCEPT !["keyword"] = "raised"]
                  /\ pc' = "raised"
                  /\ error' = "GraphStoreError"
    /\ UNCHANGED <<fn, context, raw, request, analysis, triage_kind, answer>>

\* 3. vector search, if enabled
VectorStep ==
    /\ pc = "search_vector"
    /\ IF analysis.requires_vector
       THEN /\ pc' = "vector_wait"
            /\ calls' = [calls EXCEPT !["vector"] = "inflight"]
       ELSE /\ pc' = "rank"
            /\ calls' = calls
    /\ UNCHANGED <<fn, context, raw, request, analysis, triage_kind, results, answer, error>>

\* a vector search whose failure leaves search as an exception
VectorReturn_Propagates ==
    /\ pc = "vector_wait"
    /\ \E o \in VectorOutcomes :
         IF o.kind = "hits"
         THEN /\ results' = results \o VectorSearchSync(o)
              /\ calls' = [calls EXCEPT !["vector"] = "returned"]
              /\ pc' = "rank"
              /\ error' = error
         ELSE /\ results' = results
              /\ calls' = [calls EXCEPT !["vector"] = "raised"]
              /\ pc' = "raised"
              /\ error' = "VectorStoreError"
    /\ UNCHANGED <<fn, context, raw, request, analysis, triage_kind, answer>>

\* the thread running _vector_search_sync finishes; a failure of the embedding
\* or of the store was absorbed by semantic_search
VectorReturn ==
    /\ pc = "vector_wait"
    /\ \E o \in VectorOutcomes :
         /\ results' = results \o VectorSearchSync(o)
         /\ calls' = [calls EXCEPT !["vector"] =
                         IF o.kind = "hits" THEN "returned" ELSE "absorbed"]
    /\ pc' = "rank"
    /\ UNCHANGED <<fn, context, raw, request, analysis, triage_kind, answer, error>>

\* search ranks and truncates; process checks for no results and otherwise
\* issues the generation call of _generate_answer
Fuse ==
    /\ pc = "rank"
    /\ LET search_results == RankAndTruncate(results, TopK)
       IN  /\ results' = search_results
           /\ IF NoResults(search_results)
              THEN /\ answer' = HandleNoResults(request.query, analysis)
                   /\ pc' = "done"
                   /\ calls' = calls
                   /\ context' = context
              ELSE /\ answer' = answer
                   /\ pc' = "generate_wait"
                   /\ calls' = [calls EXCEPT !["synth"] = "inflight"]
                   /\ context' = ContextBlock(search_results)
    /\ UNCHANGED <<fn, raw, request, analysis, triage_kind, error>>

\* steps 7 and 8 of process on the answer text
Finish(answer_text) ==
    LET pp == PostProcessAnswer(request.query, answer_text, results, analysis)
    IN  IF pp.ok
        THEN /\ answer' = pp.answer
             /\ pc' = "done"
             /\ error' = error
        ELSE /\ answer' = answer
             /\ pc' = "raised"
             /\ error' = "AnswerValidationError"

\* the generation call returns a text
GenerateReturn ==
    /\ pc = "generate_wait"
    /\ \E text \in GeneratedTexts : Finish(text)
    /\ calls' = [calls EXCEPT !["synth"] = "returned"]
    /\ UNCHANGED <<fn, context, raw, request, analysis, triage_kind, results>>

\* a failure of the generation call answered on a path of its own, with
\* confidence 0.0 and no sources
GenerateRaise_ZeroConfidence ==
    /\ pc = "generate_wait"
    /\ \E msg \in ErrorMessages :
         answer' = [query |-> request.query,
                    answer |-> ErrorText(msg),
                    sources |-> <<>>,
                    confidence |-> 0,
                    query_type |-> analysis.query_type,
                    retrieved_contexts |-> <<>>,
                    evaluation_metrics |-> FALSE,
                    warning |-> "Low confidence answer - information may be incomplete"]
    /\ pc' = "done"
    /\ error' = error
    /\ calls' = [calls EXCEPT !["synth"] = "raised"]
    /\ UNCHANGED <<fn, context, raw, request, analysis, triage_kind, results>>

\* the generation call raises; _generate_answer returns the error text
GenerateRaise ==
    /\ pc = "generate_wait"
    /\ \E msg \in ErrorMessages : Finish(ErrorText(msg))
    /\ calls' = [calls EXCEPT !["synth"] = "raised"]
    /\ UNCHANGED <<fn, context, raw, request, analysis, triage_kind, results>>

Next ==
    \/ Construct
    \/ ProcessEnter
    \/ TriageReturn
    \/ GraphStep
    \/ GraphReturn
    \/ KeywordStep
    \/ KeywordReturn
    \/ VectorStep
    \/ VectorReturn
    \/ Fuse
    \/ GenerateReturn
    \/ GenerateRaise

Spec == Init /\ [][Next]_vars

\* The steps the program takes by itself are taken when enabled; nothing
\* obliges an external service to answer.
ProgramStep ==
    Construct \/ ProcessEnter \/ GraphStep \/ KeywordStep \/ VectorStep \/ Fuse

FairSpec == Spec /\ WF_vars(ProgramStep)

\* ================================================ _rank_results on its own
\* No request is in process while a function is applied on its own.
Standalone ==
    /\ pc = "none"
    /\ raw = NoRaw
    /\ request = NoRequest
    /\ analysis = NoAnalysis
    /\ triage_kind = "none"
    /\ calls = [c \in CallNames |-> "none"]
    /\ results = <<>>
    /\ answer = NoAnswer
    /\ error = NoValue
    /\ context = <<>>

\* Three contents: the second is the first in another letter case (the same
\* lowercased prefix), the third differs within its first 100 characters.
RankContents ==
    {Content("Text", "chunk", 1),
     [Content("Text", "chunk", 1) EXCEPT !.upper = TRUE],
     Content("Text", "chunk", 2)}

\* source and raw score of the results handed to _rank_results; "vector_image"
\* is a source of search_cross_modal
RankScored ==
    {<<"vector", 1000>>, <<"vector", 700>>, <<"vector", 0>>,
     <<"graph", 1000>>, <<"keyword", 1000>>, <<"keyword", 0>>,
     <<"vector_image", 1000>>}

RankItems ==
    {SearchResult(c, p[1], p[2], Metadata(p[1], NoValue, NoValue)) :
        c \in RankContents, p \in RankScored}

RankInputs == UNION {[1..n -> RankItems] : n \in 0..MaxList}

\* the top_k of a call of search
TopKs == {1, 2, TopK}

RankInit ==
    /\ Standalone
    /\ fn \in {[name |-> "rank", stage |-> "called", input |-> l,
                ranked |-> <<>>, reranked |-> <<>>,
                top_k |-> 0, returned |-> <<>>] : l \in RankInputs}

\* _rank_results(results, query)
RankOnce ==
    /\ fn.name = "rank"
    /\ fn.stage = "called"
    /\ fn' = [fn EXCEPT !.stage = "ranked", !.ranked = RankResults(fn.input)]
    /\ UNCHANGED pipeline

\* _rank_results applied to the list _rank_results returned
RankAgain ==
    /\ fn.name = "rank"
    /\ fn.stage = "ranked"
    /\ fn' = [fn EXCEPT !.stage = "reranked",
                        !.reranked = RankResults(fn.ranked)]
    /\ UNCHANGED pipeline

\* the end of search for the merged results fn.input and a top_k
SearchTail ==
    /\ fn.name = "rank"
    /\ fn.stage = "called"
    /\ \E k \in TopKs :
        fn' = [fn EXCEPT !.stage = "searched", !.top_k = k,
                         !.returned = RankAndTruncate(fn.input, k)]
    /\ UNCHANGED pipeline

RankNext == RankOnce \/ RankAgain \/ SearchTail

RankSpec == RankInit /\ [][RankNext]_vars

\* ========================================= _calculate_confidence on its own
\* weighted scores of fused results, in thousandths
ScoreValues == {-500, 300, 750, 820, 1500}

\* analysis.confidence, in thousandths
AnalysisConfidences == {0, 500, 900, 1000}

\* fused result lists: distinct contents, scores in non-increasing order
FusedLists ==
    UNION {{[i \in 1..n |->
                SearchResult(Content("Text", "chunk", i), "vector", sc[i],
                             Metadata("vector_search", NoValue, NoValue))] :
              sc \in {f \in [1..n -> ScoreValues] :
                        \A i \in 1..(n - 1) : f[i] >= f[i + 1]}} :
           n \in 1..MaxFused}

\* answer texts handed to _calculate_confidence
ScoreTexts ==
    GeneratedTexts
    \cup {ErrorText(msg) : msg \in ErrorMessages}
    \cup {<<"It", "is", "Unclear">>, <<"I", "cannot", "answer">>}

ScoreInit ==
    /\ Standalone
    /\ fn \in {[name |-> "confidence", stage |-> "called", answer |-> t,
                results |-> l,
                analysis |-> [FallbackAnalysis(Plain(<<"Acme", "is">>))
                                 EXCEPT !.confidence = c],
                confidence |-> 0] :
               t \in ScoreTexts, l \in FusedLists, c \in AnalysisConfidences}

\* _calculate_confidence(answer, results, analysis)
CalcConfidence ==
    /\ fn.name = "confidence"
    /\ fn.stage = "called"
    /\ fn' = [fn EXCEPT !.stage = "returned",
                        !.confidence =
                            CalculateConfidence(fn.answer, fn.results, fn.analysis)]
    /\ UNCHANGED pipeline

ScoreNext == CalcConfidence

ScoreSpec == ScoreInit /\ [][ScoreNext]_vars

\* ============================ _extract_entities, _extract_keywords on their own
\* words of a query that names a company in double quotes
EntityVocab == {"Find", "\"Acme", "Corp\"", "revenue"}

EntityQueries ==
    UNION {{Str(0, ws, gaps, 0) :
               ws \in [1..n -> EntityVocab], gaps \in [1..(n - 1) -> 1..MaxGap]} :
           n \in 1..MaxTokens}

EntityInit ==
    /\ Standalone
    /\ fn \in {[name |-> "extract", stage |-> "called", query |-> q,
                entities |-> {}, keywords |-> <<>>] : q \in EntityQueries}

\* entities = self._extract_entities(query)
EntitiesCall ==
    /\ fn.name = "extract"
    /\ fn.stage = "called"
    /\ fn' = [fn EXCEPT !.stage = "entities",
                        !.entities = ExtractEntities(fn.query)]
    /\ UNCHANGED pipeline

\* keywords = self._extract_keywords(query)
KeywordsCall ==
    /\ fn.name = "extract"
    /\ fn.stage = "entities"
    /\ fn' = [fn EXCEPT !.stage = "keywords",
                        !.keywords = ExtractKeywords(fn.query)]
    /\ UNCHANGED pipeline

EntityNext == EntitiesCall \/ KeywordsCall

EntitySpec == EntityInit /\ [][EntityNext]_vars

\* ======================================================= chunk_text on its own
\* a text is the sequence of its characters
Chars == {"a", "b"}

Texts == UNION {[1..n -> Chars] : n \in 0..MaxText}

\* an index of a slice as Python reads it: a negative one counts from the
\* end, and the result is kept within 0..len
SliceIndex(i, len) ==
    IF i < 0 THEN MaxOf(i + len, 0) ELSE MinOf(i, len)

\* text[start:end]
Slice(text, start, end) ==
    SubSeq(text, SliceIndex(start, Len(text)) + 1, SliceIndex(end, Len(text)))

\* an end of chunk that adds the overlap to the chunk size
ChunkEnd_WithOverlap(start, chunk_size, overlap) == start + chunk_size + overlap

\* end = start + chunk_size
ChunkEnd(start, chunk_size, overlap) == start + chunk_size

ChunkInit ==
    /\ Standalone
    /\ fn \in {[name |-> "chunk", stage |-> "called", text |-> t,
                chunk_size |-> cs, overlap |-> ov, start |-> 0,
                chunks |-> <<>>] :
               t \in Texts, cs \in 1..MaxChunkSize, ov \in 0..MaxOverlap}

\* 'if not text: return []', else the loop is entered with start = 0
ChunkEnter ==
    /\ fn.name = "chunk"
    /\ fn.stage = "called"
    /\ fn' = [fn EXCEPT !.stage = IF fn.text = <<>> THEN "returned" ELSE "loop"]
    /\ UNCHANGED pipeline

\* one iteration of 'while start < text_length'; the list is followed up to
\* MaxText + 1 chunks, more than any text of the model has characters
ChunkLoop ==
    /\ fn.name = "chunk"
    /\ fn.stage = "loop"
    /\ fn.start < Len(fn.text)
    /\ Len(fn.chunks) <= MaxText
    /\ fn' = [fn EXCEPT
                !.chunks = Append(fn.chunks,
                              Slice(fn.text, fn.start,
                                    ChunkEnd(fn.start, fn.chunk_size, fn.overlap))),
                !.start = fn.start + (fn.chunk_size - fn.overlap)]
    /\ UNCHANGED pipeline

\* the loop condition fails: return chunks
ChunkExit ==
    /\ fn.name = "chunk"
    /\ fn.stage = "loop"
    /\ fn.start >= Len(fn.text)
    /\ fn' = [fn EXCEPT !.stage = "returned"]
    /\ UNCHANGED pipeline

ChunkNext == ChunkEnter \/ ChunkLoop \/ ChunkExit

ChunkSpec == ChunkInit /\ [][ChunkNext]_vars

\* =============================================== _graph_search_sync on its own
GraphEntities == {"Acme", "Q4"}

GraphQueryTypes == {"FACTUAL_LOOKUP", "SEMANTIC_LINKAGE", "REASONING"}

\* kg.find_entity: raises, finds nothing, or finds a node with or without a
\* confidence property
GraphFindOutcomes ==
    FindOutcomes \cup {[kind |-> "found", confidence |-> Some(950)]}

\* kg.find_related_entities: raises, or returns nodes with or without a
\* confidence property
GraphRelatedOutcomes ==
    {[kind |-> "raise", nodes |-> <<>>]}
    \cup {[kind |-> "list", nodes |-> ns] :
            ns \in UNION {[1..n -> {Absent, Some(600)}] : n \in 0..(MaxRelated + 1)}}

GraphInit ==
    /\ Standalone
    /\ fn \in {[name |-> "graph", stage |-> "called", entities |-> es,
                query_type |-> qt, find |-> f, related |-> r,
                out |-> [ok |-> TRUE, results |-> <<>>]] :
               es \in UNION {Orders(S) : S \in SUBSET GraphEntities},
               qt \in GraphQueryTypes,
               f \in [GraphEntities -> GraphFindOutcomes],
               r \in [GraphEntities -> GraphRelatedOutcomes]}

\* _graph_search_sync(entities, query_type)
GraphCall ==
    /\ fn.name = "graph"
    /\ fn.stage = "called"
    /\ fn' = [fn EXCEPT !.stage = "returned",
                        !.out = GraphSearchSync(fn.entities, fn.query_type,
                                                fn.find, fn.related)]
    /\ UNCHANGED pipeline

GraphNext == GraphCall

GraphSpec == GraphInit /\ [][GraphNext]_vars

\* ============================== two process calls on one QueryProcessor
\* What the external services answer to one request: the reply of the
\* classification call, the outcomes of the store calls and the text of the
\* synthesis call.
Scripts ==
    {[query |-> Plain(<<"Acme", "is">>), classify |-> c,
      find |-> [e \in {"Acme"} |-> [kind |-> "found", confidence |-> Absent]],
      related |-> [e \in {"Acme"} |-> [kind |-> "list", nodes |-> <<Absent>>]],
      keyword |-> [kind |-> "list", n |-> 1],
      vector |-> v, text |-> t] :
        c \in {[kind |-> "raise"],
               JsonReply(Some("SEMANTIC_LINKAGE"), Absent, Some(TRUE), Some(TRUE),
                         Some(TRUE), Absent, Absent)},
        v \in {[kind |-> "hits", n |-> 1, score |-> 820],
               [kind |-> "search_raise", n |-> 0, score |-> 0]},
        t \in {<<"Revenue", "grew">>, <<"Insufficient", "data">>}}

Requests == {1, 2}

\* the strategy results of a request for its script, as search collects them
ScriptedGraph(qa, script) ==
    LET entities == ExtractEntities(qa.rewritten_query)
    IN  IF qa.requires_graph /\ entities # {}
        THEN GraphSearchSync(CHOOSE o \in Orders(entities) : TRUE,
                             qa.query_type, script.find, script.related)
        ELSE [ok |-> TRUE, results |-> <<>>]

ScriptedKeyword(qa, script) ==
    IF qa.requires_keyword /\ ExtractKeywords(qa.rewritten_query) # <<>>
    THEN KeywordSearchSync(script.keyword)
    ELSE [ok |-> TRUE, results |-> <<>>]

ScriptedVector(qa, script) ==
    IF qa.requires_vector THEN VectorSearchSync(script.vector) ELSE <<>>

\* steps 5 to 8 of process on the list search returned
Conclude(script, qa, search_results) ==
    IF NoResults(search_results)
    THEN [ok |-> TRUE, answer |-> HandleNoResults(script.query, qa)]
    ELSE PostProcessAnswer(script.query, script.text, search_results, qa)

\* process run alone against the responses of a script
ProcessAlone(script) ==
    LET qa == TriageQuery(script.query, script.classify)
        g == ScriptedGraph(qa, script)
        k == ScriptedKeyword(qa, script)
    IN  IF ~g.ok \/ ~k.ok THEN [ok |-> FALSE, answer |-> NoAnswer]
        ELSE Conclude(script, qa,
                 RankAndTruncate(g.results \o k.results
                                    \o ScriptedVector(qa, script), TopK))

\* one list for the results of every call of search
ResultsCell_Shared(r) == 1

\* the list 'results = []' of a call of search is a local of that call
ResultsCell(r) == r

PairInit ==
    /\ Standalone
    /\ fn \in {[name |-> "pair", scripts |-> <<s1, s2>>,
                reqs |-> [r \in Requests |->
                            [pc |-> "start", analysis |-> NoAnalysis,
                             outcome |-> [ok |-> FALSE, answer |-> NoAnswer]]],
                lists |-> [r \in Requests |-> <<>>],
                interleaved |-> FALSE] : s1 \in Scripts, s2 \in Scripts}

\* a step of request r leaves the other request between two of its steps
Overlaps(r) ==
    fn.interleaved \/ \E o \in Requests \ {r} : fn.reqs[o].pc \notin {"start", "done"}

\* process up to the first await of search: triage, then results = []
PairEnter(r) ==
    /\ fn.name = "pair"
    /\ fn.reqs[r].pc = "start"
    /\ fn' = [fn EXCEPT
                !.reqs[r].pc = "graph",
                !.reqs[r].analysis =
                    TriageQuery(fn.scripts[r].query, fn.scripts[r].classify),
                !.lists[ResultsCell(r)] = <<>>,
                !.interleaved = Overlaps(r)]
    /\ UNCHANGED pipeline

\* the graph call, if due, is awaited and its results are added
PairGraph(r) ==
    /\ fn.name = "pair"
    /\ fn.reqs[r].pc = "graph"
    /\ LET out == ScriptedGraph(fn.reqs[r].analysis, fn.scripts[r])
       IN  fn' = [fn EXCEPT
                    !.reqs[r].pc = IF out.ok THEN "keyword" ELSE "done",
                    !.lists[ResultsCell(r)] = @ \o out.results,
                    !.interleaved = Overlaps(r)]
    /\ UNCHANGED pipeline

\* the keyword call, if due, is awaited and its results are added
PairKeyword(r) ==
    /\ fn.name = "pair"
    /\ fn.reqs[r].pc = "keyword"
    /\ LET out == ScriptedKeyword(fn.reqs[r].analysis, fn.scripts[r])
       IN  fn' = [fn EXCEPT
                    !.reqs[r].pc = IF out.ok THEN "vector" ELSE "done",
                    !.lists[ResultsCell(r)] = @ \o out.results,
                    !.interleaved = Overlaps(r)]
    /\ UNCHANGED pipeline

\* the vector call, if due, is awaited and its results are added
PairVector(r) ==
    /\ fn.name = "pair"
    /\ fn.reqs[r].pc = "vector"
    /\ fn' = [fn EXCEPT
                !.reqs[r].pc = "rank",
                !.lists[ResultsCell(r)] =
                    @ \o ScriptedVector(fn.reqs[r].analysis, fn.scripts[r]),
                !.interleaved = Overlaps(r)]
    /\ UNCHANGED pipeline

\* search ranks and returns, and process runs to its end without another
\* suspension (the calls of the generation service are not awaited)
PairFinish(r) ==
    /\ fn.name = "pair"
    /\ fn.reqs[r].pc = "rank"
    /\ fn' = [fn EXCEPT
                !.reqs[r].pc = "done",
                !.reqs[r].outcome =
                    Conclude(fn.scripts[r], fn.reqs[r].analysis,
                             RankAndTruncate(fn.lists[ResultsCell(r)], TopK)),
                !.interleaved = Overlaps(r)]
    /\ UNCHANGED pipeline

PairNext ==
    \E r \in Requests :
        PairEnter(r) \/ PairGraph(r) \/ PairKeyword(r) \/ PairVector(r)
            \/ PairFinish(r)

PairSpec == PairInit /\ [][PairNext]_vars

\* ============================================================== properties
\* search has returned to process (which went on to the no-results check)
SearchReturned ==
    \/ pc \in {"generate_wait", "done"}
    \/ pc = "raised" /\ error = "AnswerValidationError"

\* the strategy's call is made in this search: enabled, with input
Wanted(s) ==
    CASE s = "graph" -> analysis.requires_graph /\ ExtractEntities(SearchQuery) # {}
      [] s = "keyword" -> analysis.requires_keyword /\ ExtractKeywords(SearchQuery) # <<>>
      [] s = "vector" -> analysis.requires_vector

\* C1: for a validated request, whatever the external calls do, process
\* returns an Answer and never raises; the only error ever surfaced is the
\* validation error of the request.
C1_OnlyValidationSurfaces ==
    /\ pc # "raised"
    /\ error \in {NoValue, "ValidationError"}

\* C2: when the store call of a strategy raises, search goes on: the strategy
\* adds nothing to the results and the next stage of search is reached, as
\* after an empty return.
C2_FailedStrategyContributesNothing ==
    [][\A s \in Strategies :
          (calls[s] = "inflight" /\ calls'[s] \in {"raised", "absorbed"})
              => /\ results' = results
                 /\ pc' = (CASE s = "graph" -> "search_keyword"
                             [] s = "keyword" -> "search_vector"
                             [] s = "vector" -> "rank")]_vars

\* C3: no strategy call waits for another one to complete before it is
\* issued: whenever a strategy call completes, every strategy of this search
\* that is enabled and has input has already been issued; and ranking starts
\* only when no strategy call is in flight.
C3_ConcurrentDispatch ==
    /\ [][\A s \in Strategies :
            (calls[s] = "inflight" /\ calls'[s] # "inflight")
                => \A t \in Strategies : Wanted(t) => calls[t] # "none"]_vars
    /\ [](pc = "rank" => InFlight \cap Strategies = {})

\* C4: every external call is bounded by a timeout: a call in flight
\* eventually stops being in flight (it returned, raised or timed out), so
\* _triage_query eventually returns and process eventually ends.
C4_EveryCallIsBounded ==
    \A c \in CallNames : (calls[c] = "inflight") ~> (calls[c] # "inflight")

\* C5: once the generation call has come back, process has returned an
\* Answer whose confidence is in [0,1] and that has at most 5 sources,
\* whatever the scores of the results were.
C5_AnswerWithinBounds ==
    calls["synth"] \in {"returned", "raised"}
        => /\ pc = "done"
           /\ answer.confidence >= 0
           /\ answer.confidence <= ConfOne
           /\ Len(answer.sources) <= MaxSources

\* C6: whenever search returns the empty list, process returns an Answer with
\* confidence 0.0, no sources, the warning "No relevant context found" and
\* the query type of the analysis.
C6_NoResultsAnswer ==
    (SearchReturned /\ results = <<>>)
        => /\ pc = "done"
           /\ answer.confidence = 0
           /\ answer.sources = <<>>
           /\ answer.warning = "No relevant context found"
           /\ answer.query_type = analysis.query_type

\* C6 witness: a no-results Answer after a retrieval that ran, for an
\* analysis other than the fallback
C6_Witness ==
    /\ pc = "done"
    /\ results = <<>>
    /\ calls["vector"] = "returned"
    /\ analysis.query_type = "SEMANTIC_LINKAGE"
    /\ analysis.confidence = 800
    /\ answer.warning = "No relevant context found"

\* C7: when retrieval yields no fused result, the generation service is not
\* called for synthesis; the classification call is the only call to it.
C7_NoSynthesisWithoutResults ==
    (SearchReturned /\ results = <<>>)
        => /\ calls["synth"] = "none"
           /\ calls["classify"] \in {"returned", "raised"}

\* C7 witness: process ended on the no-results path after a keyword call
\* that returned nothing
C7_Witness ==
    /\ pc = "done"
    /\ results = <<>>
    /\ calls["keyword"] = "returned"
    /\ calls["synth"] = "none"

\* C8: after any failure of classification (service error, unparseable
\* reply, unknown label, invalid field) the analysis is exactly the fallback
\* and retrieval is vector-only.
C8_FallbackOnTriageFailure ==
    triage_kind \in TriageFailures
        => /\ analysis = FallbackAnalysis(request.query)
           /\ pc # "triage_wait"
           /\ calls["graph"] = "none"
           /\ calls["keyword"] = "none"
           /\ (pc \in {"vector_wait", "rank", "generate_wait", "done"}
                  => calls["vector"] # "none")

\* C8 witness: the reply named an unknown label and the request went on to
\* an answer built from vector results
C8_Witness ==
    /\ triage_kind = "unknown_label"
    /\ pc = "done"
    /\ calls["vector"] = "returned"
    /\ results # <<>>

\* the query has fewer than 2 words, or a length (raw or normalized)
\* outside [3,1000]
BadQuery(v) ==
    \/ Len(Split(Normalize(v))) < MinWords
    \/ StrLen(v) < MinLength
    \/ StrLen(v) > MaxLength
    \/ StrLen(Normalize(v)) < MinLength
    \/ StrLen(Normalize(v)) > MaxLength

\* C9: a query with fewer than 2 words or with a length outside [3,1000] is
\* rejected at construction; a rejected request never enters process and no
\* external call is ever made for it.
C9_BadQueryRejected ==
    /\ []((pc \in {"constructed", "rejected"} /\ BadQuery(raw))
            => (pc = "rejected" /\ Issued = {}))
    /\ [][pc = "rejected" => (pc' = "rejected" /\ calls' = calls)]_vars

\* C9 witness: a one-word query long enough for the length bound was rejected
C9_Witness ==
    /\ pc = "rejected"
    /\ Len(raw.words) = 1
    /\ StrLen(raw) >= MinLength
    /\ StrLen(raw) <= MaxLength
    /\ Issued = {}

\* C10: a raw query is accepted if and only if its normalized form has at
\* least 2 words and a length in [3,1000], and the query stored is the
\* normalized form.
C10_LengthBoundAfterNormalization ==
    pc \in {"constructed", "rejected"}
        => /\ (pc = "constructed")
                <=> /\ Len(Split(Normalize(raw))) >= MinWords
                    /\ StrLen(Normalize(raw)) >= MinLength
                    /\ StrLen(Normalize(raw)) <= MaxLength
           /\ (pc = "constructed" => request.query = Normalize(raw))

\* which result it is, whatever its score has become
Identity(r) == [content |-> r.content, source |-> r.source, metadata |-> r.metadata]

Identities(s) == [i \in 1..Len(s) |-> Identity(s[i])]

Keys(s) == {ContentKey(s[i].content) : i \in 1..Len(s)}

\* the weighted score of a result, from the weights the ranking is to apply
WeightedScore(r) ==
    CASE r.source = "vector" -> r.score
      [] r.source = "graph" -> (r.score * 9) \div 10
      [] r.source = "keyword" -> (r.score * 8) \div 10
      [] OTHER -> (r.score * 7) \div 10

\* the positions of the ranked list out that hold the input result r
PositionsOf(out, r) ==
    {p \in 1..Len(out) :
        Identity(out[p]) = Identity(r) /\ out[p].score = WeightedScore(r)}

\* the first place of the input at which the ranked result r stood
Origin(in, r) ==
    CHOOSE i \in 1..Len(in) :
        /\ Identity(in[i]) = Identity(r) /\ WeightedScore(in[i]) = r.score
        /\ \A k \in 1..(i - 1) :
              ~(Identity(in[k]) = Identity(r) /\ WeightedScore(in[k]) = r.score)

\* C11: _rank_results applied to the list _rank_results returned yields the
\* same results in the same order.
C11_RankIdempotent ==
    (fn.name = "rank" /\ fn.stage = "reranked")
        => Identities(fn.reranked) = Identities(fn.ranked)

\* C12: no two results of the output of _rank_results (nor of search) have
\* equal dedupe keys, and of the input results sharing a key the one of the
\* highest weighted score, the first of them in the sorted order, is retained.
C12_DedupeKeepsHighest ==
    /\ (fn.name = "rank" /\ fn.stage = "searched")
        => \A p, q \in 1..Len(fn.returned) :
              p # q => ContentKey(fn.returned[p].content)
                          # ContentKey(fn.returned[q].content)
    /\ (fn.name = "rank" /\ fn.stage = "ranked")
        => LET in == fn.input
               out == fn.ranked
           IN  /\ \A p, q \in 1..Len(out) :
                     p # q => ContentKey(out[p].content) # ContentKey(out[q].content)
               /\ Keys(out) = Keys(in)
               /\ \A p \in 1..Len(out) :
                     LET group == {j \in 1..Len(in) :
                                     ContentKey(in[j].content)
                                        = ContentKey(out[p].content)}
                         best == {j \in group : \A k \in group :
                                     WeightedScore(in[j]) >= WeightedScore(in[k])}
                         first == CHOOSE j \in best : \A k \in best : j <= k
                     IN  /\ Identity(out[p]) = Identity(in[first])
                         /\ out[p].score = WeightedScore(in[first])

\* C12 witness: of two inputs whose contents differ only in letter case, the
\* later one had the higher weighted score and is the one retained
C12_Witness ==
    /\ fn.name = "rank"
    /\ fn.stage = "ranked"
    /\ Len(fn.input) = 2
    /\ Len(fn.ranked) = 1
    /\ fn.input[1].content # fn.input[2].content
    /\ WeightedScore(fn.input[2]) > WeightedScore(fn.input[1])
    /\ Identity(fn.ranked[1]) = Identity(fn.input[2])

\* C13 as stated: a "vector" and a "keyword" result of the same raw score and
\* different dedupe keys come out with the vector result strictly before the
\* keyword result, for every raw score and every input order.
C13_VectorBeforeKeyword ==
    (fn.name = "rank" /\ fn.stage = "ranked")
        => \A i, j \in 1..Len(fn.input) :
              ( /\ fn.input[i].source = "vector"
                /\ fn.input[j].source = "keyword"
                /\ fn.input[i].score = fn.input[j].score
                /\ ContentKey(fn.input[i].content) # ContentKey(fn.input[j].content)
                /\ PositionsOf(fn.ranked, fn.input[i]) # {}
                /\ PositionsOf(fn.ranked, fn.input[j]) # {} )
              => \A p \in PositionsOf(fn.ranked, fn.input[i]) :
                    \A q \in PositionsOf(fn.ranked, fn.input[j]) : p < q

\* C13 amended: the same, for every positive raw score and every input order.
C13_VectorBeforeKeywordPositive ==
    (fn.name = "rank" /\ fn.stage = "ranked")
        => \A i, j \in 1..Len(fn.input) :
              ( /\ fn.input[i].source = "vector"
                /\ fn.input[j].source = "keyword"
                /\ fn.input[i].score = fn.input[j].score
                /\ fn.input[i].score > 0
                /\ ContentKey(fn.input[i].content) # ContentKey(fn.input[j].content)
                /\ PositionsOf(fn.ranked, fn.input[i]) # {}
                /\ PositionsOf(fn.ranked, fn.input[j]) # {} )
              => \A p \in PositionsOf(fn.ranked, fn.input[i]) :
                    \A q \in PositionsOf(fn.ranked, fn.input[j]) : p < q

\* C13 witness: the keyword result came first in the input, with the raw
\* score 1.0 of the vector result, and is behind it in the output
C13_Witness ==
    /\ fn.name = "rank"
    /\ fn.stage = "ranked"
    /\ Len(fn.input) = 2
    /\ fn.input[1].source = "keyword"
    /\ fn.input[2].source = "vector"
    /\ fn.input[1].score = 1000
    /\ fn.input[2].score = 1000
    /\ Len(fn.ranked) = 2
    /\ fn.ranked[1].source = "vector"
    /\ fn.ranked[2].source = "keyword"

\* C14: the output of _rank_results is in non-increasing order of weighted
\* score (raw score x 1.0 vector, x 0.9 graph, x 0.8 keyword, x 0.7 any other
\* source), and results of equal weighted score keep their input order.
C14_SortedByWeightedScore ==
    (fn.name = "rank" /\ fn.stage = "ranked")
        => LET in == fn.input
               out == fn.ranked
           IN  /\ \A p \in 1..Len(out) :
                     \E i \in 1..Len(in) :
                        /\ Identity(out[p]) = Identity(in[i])
                        /\ out[p].score = WeightedScore(in[i])
               /\ \A p, q \in 1..Len(out) :
                     p < q => out[p].score >= out[q].score
               /\ \A p, q \in 1..Len(out) :
                     (p < q /\ out[p].score = out[q].score)
                        => Origin(in, out[p]) < Origin(in, out[q])

\* C14 witness: a "vector_image" result of raw score 1.0 and a "vector" result
\* of raw score 0.7 tie at the weighted score 0.7 and keep their input order
C14_Witness ==
    /\ fn.name = "rank"
    /\ fn.stage = "ranked"
    /\ Len(fn.input) = 2
    /\ fn.input[1].source = "vector_image"
    /\ fn.input[1].score = 1000
    /\ fn.input[2].source = "vector"
    /\ fn.input[2].score = 700
    /\ Identities(fn.ranked) = Identities(fn.input)
    /\ fn.ranked[1].score = 700
    /\ fn.ranked[2].score = 700

\* C15: search returns the first top_k entries of the sorted, deduplicated
\* merge: min(top_k, number of distinct dedupe keys) results, never more than
\* top_k, and a dropped duplicate takes none of the top_k places.
C15_TopKOfDistinct ==
    (fn.name = "rank" /\ fn.stage = "searched")
        => LET in == fn.input
               out == fn.returned
               n == Len(fn.returned)
           IN  /\ n = MinOf(fn.top_k, Cardinality(Keys(in)))
               /\ n <= fn.top_k
               /\ Cardinality(Keys(out)) = n
               /\ \A p, q \in 1..n : p < q => out[p].score >= out[q].score
               /\ \A p \in 1..n : \E i \in 1..Len(in) :
                     /\ Identity(out[p]) = Identity(in[i])
                     /\ out[p].score = WeightedScore(in[i])
               /\ \A i \in 1..Len(in) :
                     \/ \E p \in 1..n :
                           /\ ContentKey(out[p].content) = ContentKey(in[i].content)
                           /\ out[p].score >= WeightedScore(in[i])
                     \/ /\ n = fn.top_k
                        /\ out[n].score >= WeightedScore(in[i])

\* C15 witness: three merged results of two dedupe keys and top_k = 2: the
\* duplicate stood second in the sorted order and both keys are returned
C15_Witness ==
    /\ fn.name = "rank"
    /\ fn.stage = "searched"
    /\ fn.top_k = 2
    /\ Len(fn.input) = 3
    /\ ContentKey(fn.input[1].content) = ContentKey(fn.input[2].content)
    /\ WeightedScore(fn.input[1]) >= WeightedScore(fn.input[2])
    /\ WeightedScore(fn.input[2]) > WeightedScore(fn.input[3])
    /\ Len(fn.returned) = 2
    /\ Identity(fn.returned[2]) = Identity(fn.input[3])

\* the text holds "don't have enough", "insufficient", "cannot answer" or
\* "unclear", in any letter case
HoldsMarker(text) ==
    \/ \E i \in 1..Len(text) : LowerWord(text[i]) \in {"insufficient", "unclear"}
    \/ \E i \in 1..(Len(text) - 2) :
          <<LowerWord(text[i]), LowerWord(text[i + 1]), LowerWord(text[i + 2])>>
              = <<"don't", "have", "enough">>
    \/ \E i \in 1..(Len(text) - 1) :
          <<LowerWord(text[i]), LowerWord(text[i + 1])>> = <<"cannot", "answer">>

\* the answer text signals insufficiency: it holds one of the markers or the
\* sentinel phrase
SignalsInsufficiency(text) == HoldsMarker(text) \/ Contains(text, Sentinel)

\* C16: in every Answer process returns, the warning is set if and only if
\* the confidence is below 0.5 or the answer text signals insufficiency.
C16_WarningIffLowOrInsufficient ==
    pc = "done"
        => ((answer.warning # NoValue)
                <=> (answer.confidence < ConfHalf \/ SignalsInsufficiency(answer.answer)))

\* C16 witness: an Answer on the results path with confidence at least 0.5,
\* no marker in its text and no warning
C16_Witness ==
    /\ pc = "done"
    /\ results # <<>>
    /\ answer.confidence >= ConfHalf
    /\ ~SignalsInsufficiency(answer.answer)
    /\ answer.warning = NoValue

\* C17: an Answer with no sources has confidence 0.0: the sources are empty
\* on the no-results path only, and on the results path there are
\* min(5, number of fused results) sources, at least one.
C17_EmptySourcesZeroConfidence ==
    pc = "done"
        => /\ answer.sources = <<>> => (answer.confidence = 0 /\ results = <<>>)
           /\ results # <<>>
                => /\ Len(answer.sources) = MinOf(MaxSources, Len(results))
                   /\ Len(answer.sources) >= 1

\* C17 witness: an Answer on the results path for more than five fused
\* results, with five sources and a positive confidence
C17_Witness ==
    /\ pc = "done"
    /\ Len(results) > MaxSources
    /\ Len(answer.sources) = MaxSources
    /\ answer.confidence > 0

\* C19: on the results path the warning is "Low confidence answer -
\* information may be incomplete" when the confidence is below 0.5, else
\* "Insufficient context to fully answer query" when the text holds the
\* sentinel phrase "I don't have enough information", else none.
C19_WarningOrder ==
    (pc = "done" /\ results # <<>>)
        => answer.warning
             = (IF answer.confidence < ConfHalf
                THEN "Low confidence answer - information may be incomplete"
                ELSE IF Contains(answer.answer, Sentinel)
                THEN "Insufficient context to fully answer query"
                ELSE NoValue)

\* C19 witness: the text holds the sentinel phrase and the confidence is
\* below 0.5: the low-confidence warning is the one chosen
C19_Witness ==
    /\ pc = "done"
    /\ results # <<>>
    /\ Contains(answer.answer, Sentinel)
    /\ answer.confidence < ConfHalf
    /\ answer.warning = "Low confidence answer - information may be incomplete"

\* C18: for a non-empty fused list, with avg_score the mean of the weighted
\* scores of the first min(5, n) results, the confidence is min(0.3,
\* avg_score) when the text holds a marker in any letter case, and
\* min(1.0, (avg_score + analysis.confidence) / 2) otherwise; one hit of 0.82
\* with analysis confidence 0.9 and no marker gives 0.86, avg_score 0.75
\* with a marker gives 0.3.  (Both sides of each equation are multiplied by
\* the count m and by ConfOne.)
C18_ConfidenceFormula ==
    (fn.name = "confidence" /\ fn.stage = "returned")
        => LET m == MinOf(MaxSources, Len(fn.results))
               sum == SumSeq([i \in 1..m |-> fn.results[i].score])
               ac == fn.analysis.confidence
               scores == [i \in 1..Len(fn.results) |-> fn.results[i].score]
           IN  /\ HoldsMarker(fn.answer)
                    => fn.confidence * m * 10
                         = MinOf(3 * ConfOne * m, 10 * (ConfOne \div Milli) * sum)
               /\ ~HoldsMarker(fn.answer)
                    => fn.confidence * m * 2
                         = MinOf(2 * ConfOne * m,
                                 (ConfOne \div Milli) * (sum + ac * m))
               /\ (scores = <<820>> /\ ac = 900 /\ ~HoldsMarker(fn.answer))
                    => fn.confidence * 100 = 86 * ConfOne
               /\ (scores = <<750>> /\ HoldsMarker(fn.answer))
                    => fn.confidence * 10 = 3 * ConfOne

\* C18 witness: six results of which the top five have the mean 0.75, a text
\* with the marker "Insufficient" in capitals, and the confidence 0.3
C18_Witness ==
    /\ fn.name = "confidence"
    /\ fn.stage = "returned"
    /\ [i \in 1..Len(fn.results) |-> fn.results[i].score]
          = <<750, 750, 750, 750, 750, -500>>
    /\ fn.answer = <<"Insufficient", "data">>
    /\ fn.confidence * 10 = 3 * ConfOne

\* C20: for the query 'Find "Acme Corp" revenue' _extract_entities returns
\* exactly the set {"Acme Corp"}: the quoted phrase as one entity, and neither
\* the leading capitalized word nor a token of the phrase.
C20_QuotedPhraseIsTheOnlyEntity ==
    ( /\ fn.name = "extract"
      /\ fn.stage = "entities"
      /\ fn.query = Plain(<<"Find", "\"Acme", "Corp\"", "revenue">>) )
        => fn.entities = {"Acme Corp"}

C23_ChunksWithinSize ==
    (fn.name = "chunk" /\ fn.stage = "returned" /\ fn.overlap < fn.chunk_size)
        => /\ \A i \in 1..Len(fn.chunks) : Len(fn.chunks[i]) <= fn.chunk_size
           /\ fn.text # <<>> => Len(fn.chunks) >= 1
           /\ fn.text = <<>> => fn.chunks = <<>>

\* C23 witness: a text of four characters cut with chunk_size 3 and overlap
\* 2 gave four chunks, the first of three characters
C23_Witness ==
    /\ fn.name = "chunk"
    /\ fn.stage = "returned"
    /\ Len(fn.text) = 4
    /\ fn.chunk_size = 3
    /\ fn.overlap = 2
    /\ Len(fn.chunks) = 4
    /\ Len(fn.chunks[1]) = 3

\* C30: for every text, chunk_size >= 1 and overlap >= 0, overlap >=
\* chunk_size included, the start index strictly increases on every
\* iteration of the loop of chunk_text (so the loop ends).
C30_StartStrictlyIncreases ==
    [][(fn.name = "chunk" /\ fn.stage = "loop" /\ fn'.stage = "loop")
          => fn'.start > fn.start]_vars

\* the results the graph strategy is to emit for one entity
GraphExpected(e, query_type, info, rel) ==
    IF info.kind # "found" THEN <<>>
    ELSE <<[content |-> Content("Entity", e, 0), source |-> "graph",
            score |-> IF info.confidence = Absent THEN 800
                      ELSE info.confidence[1],
            metadata |-> Metadata("knowledge_graph", NoValue, NoValue)]>>
         \o (IF query_type # "SEMANTIC_LINKAGE" THEN <<>>
             ELSE [j \in 1..Len(rel.nodes) |->
                     [content |-> Content("Related Entity", e, j),
                      source |-> "graph",
                      score |-> ((IF rel.nodes[j] = Absent THEN 700
                                  ELSE rel.nodes[j][1]) * 9) \div 10,
                      metadata |-> Metadata("knowledge_graph", "related_to", e)]])

\* C24: the graph strategy emits, for each candidate entity in turn, one
\* "graph" result with the node confidence (default 0.8) as score iff
\* find_entity finds it; find_related_entities is called only for an entity
\* found under SEMANTIC_LINKAGE (so its failure matters in no other case),
\* and then one result per related entity follows with score = related
\* confidence (default 0.7) x 0.9, relationship "related_to" and the entity
\* as parent.
C24_GraphStrategyResults ==
    (fn.name = "graph" /\ fn.stage = "returned")
        => LET es == fn.entities
               looked(e) == /\ fn.find[e].kind = "found"
                            /\ fn.query_type = "SEMANTIC_LINKAGE"
               expected[i \in 0..Len(es)] ==
                   IF i = 0 THEN <<>>
                   ELSE expected[i - 1]
                           \o GraphExpected(es[i], fn.query_type, fn.find[es[i]],
                                            fn.related[es[i]])
           IN  /\ fn.out.ok
                    <=> \A e \in Range(es) :
                           /\ fn.find[e].kind # "raise"
                           /\ looked(e) => fn.related[e].kind # "raise"
               /\ fn.out.ok => fn.out.results = expected[Len(es)]

\* C24 witness: under SEMANTIC_LINKAGE, of two entities the first is found
\* and has two related entities, the second is not found: three results
C24_Witness ==
    /\ fn.name = "graph"
    /\ fn.stage = "returned"
    /\ fn.query_type = "SEMANTIC_LINKAGE"
    /\ Len(fn.entities) = 2
    /\ fn.find[fn.entities[1]].kind = "found"
    /\ fn.find[fn.entities[2]].kind = "absent"
    /\ Len(fn.related[fn.entities[1]].nodes) = 2
    /\ fn.out.ok
    /\ Len(fn.out.results) = 3
    /\ fn.out.results[3].metadata.parent_entity = fn.entities[1]

\* C25: the entity list and the keyword list that gate and drive the graph
\* and keyword strategies are extracted from the original query of the
\* request, not from the rewritten query of the classifier: a graph call is
\* made only if the original query has an entity, a keyword call only if it
\* has a keyword, and a search that returns has made each call that is
\* enabled and has such an input.
C25_ExtractionFromOriginalQuery ==
    /\ calls["graph"] # "none" => ExtractEntities(request.query) # {}
    /\ calls["keyword"] # "none" => ExtractKeywords(request.query) # <<>>
    /\ SearchReturned
        => /\ (analysis.requires_graph /\ ExtractEntities(request.query) # {})
                 => calls["graph"] # "none"
           /\ (analysis.requires_keyword /\ ExtractKeywords(request.query) # <<>>)
                 => calls["keyword"] # "none"

\* C26: on the results path the i-th source of the Answer has the 1-based id
\* i and the source type, weighted score and metadata of the i-th fused
\* result, for the first min(5, n) results; the [Source N] entries of the
\* context block given to the synthesizer are the same results in the same
\* order under the same numbers.
C26_SourcesMatchContext ==
    (pc = "done" /\ results # <<>>)
        => LET m == MinOf(MaxSources, Len(results))
           IN  /\ Len(answer.sources) = m
               /\ Len(context) = m
               /\ \A i \in 1..m :
                     /\ answer.sources[i].id = i
                     /\ answer.sources[i].source_type = results[i].source
                     /\ answer.sources[i].score = results[i].score
                     /\ answer.sources[i].metadata = results[i].metadata
                     /\ context[i].idx = answer.sources[i].id
                     /\ context[i].source = answer.sources[i].source_type
                     /\ context[i].content = results[i].content
                     /\ context[i].confidence = TwoDecimals(results[i].score)

\* C26 witness: an Answer for more than five fused results of two sources:
\* five sources, and the fifth entry of the context block has number 5
C26_Witness ==
    /\ pc = "done"
    /\ Len(results) > MaxSources
    /\ \E i, j \in 1..MaxSources : results[i].source # results[j].source
    /\ Len(answer.sources) = MaxSources
    /\ context[MaxSources].idx = MaxSources
    /\ answer.sources[MaxSources].id = MaxSources

\* C27: two process calls on one QueryProcessor, interleaved in any way at
\* their suspension points, each return what the call returns when run alone
\* against the same external responses, and each works on its own analysis.
C27_RequestsAreIndependent ==
    fn.name = "pair"
        => \A r \in Requests :
              /\ fn.reqs[r].pc # "start"
                    => fn.reqs[r].analysis
                          = TriageQuery(fn.scripts[r].query, fn.scripts[r].classify)
              /\ fn.reqs[r].pc = "done"
                    => fn.reqs[r].outcome = ProcessAlone(fn.scripts[r])

\* C27 witness: two interleaved calls with different external responses
\* have both returned, with different confidences
C27_Witness ==
    /\ fn.name = "pair"
    /\ fn.interleaved
    /\ \A r \in Requests : fn.reqs[r].pc = "done" /\ fn.reqs[r].outcome.ok
    /\ fn.scripts[1] # fn.scripts[2]
    /\ fn.reqs[1].outcome.answer.confidence # fn.reqs[2].outcome.answer.confidence
    /\ Len(fn.reqs[1].outcome.answer.sources) # Len(fn.reqs[2].outcome.answer.sources)

\* C28: no Answer returned by process has the warning "Insufficient context
\* to fully answer query": a text that holds the sentinel phrase holds the
\* marker "don't have enough", so its confidence is at most 0.3 and the
\* low-confidence warning is the one set.
C28_InsufficientContextNeverWarned ==
    pc = "done"
        => /\ answer.warning # "Insufficient context to fully answer query"
           /\ Contains(answer.answer, Sentinel)
                 => /\ answer.confidence * 10 <= 3 * ConfOne
                    /\ answer.warning
                          = "Low confidence answer - information may be incomplete"

\* C28 witness: the synthesizer answered with the sentinel phrase over
\* results whose mean score is above 0.5, for an analysis of confidence 0.8:
\* confidence 0.3 and the low-confidence warning
C28_Witness ==
    /\ pc = "done"
    /\ calls["synth"] = "returned"
    /\ Contains(answer.answer, Sentinel)
    /\ results[Len(results)].score > Milli \div 2
    /\ analysis.confidence = 800
    /\ answer.confidence * 10 = 3 * ConfOne
    /\ answer.warning = "Low confidence answer - information may be incomplete"

====
